---- MODULE Spec2Model ----
(***************************************************************************)
(* Model of terminfo-backport.py: the numeric clamp patcher                *)
(* (patch_shorts), the decompiler selector (find_infocmp) and the pipeline *)
(* of main().  Byte strings are sequences of one-character strings.        *)
(***************************************************************************)
EXTENDS Integers, Sequences, FiniteSets, TLC

VARIABLES
    pc,                 \* position of main()
    exit_status,        \* None while running, then Some(status) of the process
    exception,          \* name of the uncaught exception that ended main(), or "none"
    calls,              \* the steps invoked so far, each with whether it succeeded
    stock_tic_version,  \* Some(stripped output of the system tic probe)
    port_result,        \* Some(result of `port contents ncurses`)
    brew_result,        \* Some(result of `brew ls --verbose ncurses`)
    candidates,         \* find_infocmp: the candidates to probe, in order
    probed,             \* find_infocmp: the probes made, each with its result
    best_exe,           \* find_infocmp: None or Some(path)
    best_version_key,   \* find_infocmp: None or Some(tuple of integers)
    find_returned,      \* find_infocmp has returned
    infocmp,            \* main: what find_infocmp returned
    export_exe,         \* Some(the executable the export was run with)
    export_stdout,      \* infocmp_result.stdout
    term_src,           \* the patched source
    warned,             \* "no patch was applied" has been printed
    out_dir,            \* the installation directory (a str)
    tempdir,            \* name of the scratch directory, "none" before mkdtemp
    disk,               \* the scratch directories that exist
    pending,            \* exception raised inside try, "none" when there is none
    src_file,           \* Some(content written to the scratch source file)
    compiled,           \* Some(source the compiler installed)
    terminfo_dirs,      \* value of TERMINFO_DIRS read, None when unset
    guidance,           \* the export advice has been printed
    stage,              \* patcher harness: "off", "input", "once", "twice"
    src,                \* patcher harness: the source given to patch_shorts
    once,               \* patcher harness: patch_shorts(src)
    twice               \* patcher harness: patch_shorts(patch_shorts(src))

selvars == <<port_result, brew_result, candidates, probed, best_exe, best_version_key,
             find_returned, infocmp>>
latevars == <<export_exe, export_stdout, term_src, warned, out_dir, tempdir, disk, pending,
              src_file, compiled, terminfo_dirs, guidance>>
mainvars == <<pc, exit_status, exception, calls, stock_tic_version, selvars, latevars>>
pvars == <<stage, src, once, twice>>
vars == <<mainvars, pvars>>

\* Optional values: None, or Some(v).
None == <<>>
Some(v) == <<v>>

(***************************************************************************)
(* Bounds.                                                                 *)
(***************************************************************************)
\* Longest source, in fragments, given to the patcher harness.
MaxFrags == 3
\* Python integers are unbounded; the model's int() saturates here.
IntCap == 1000000000

(***************************************************************************)
(* Module constants of terminfo-backport.py.                               *)
(***************************************************************************)
ValueError == -1

PACKAGE_NAME == <<"n","c","u","r","s","e","s">>
NCURSES_VERSION_PREFIX == <<"n","c","u","r","s","e","s"," ">>
NCURSES_STOCK_EXPECTED_VERSION ==
    NCURSES_VERSION_PREFIX \o <<"5",".","7",".","2","0","0","8","1","1","0","2">>
INFOCMP_FALLBACK == <<"i","n","f","o","c","m","p">>
INFOCMP_SUFFIX == <<"/","b","i","n","/","i","n","f","o","c","m","p">>
SHORT_MAX == 32767
CLAMPED == <<"#","3","2","7","6","7">>

(***************************************************************************)
(* Python bytes primitives used by the script.                             *)
(***************************************************************************)
DecDigits == <<"0","1","2","3","4","5","6","7","8","9">>
LowerHex == DecDigits \o <<"a","b","c","d","e","f">>
UpperHex == DecDigits \o <<"A","B","C","D","E","F">>
Letters ==
    {"a","b","c","d","e","f","g","h","i","j","k","l","m","n","o","p","q","r",
     "s","t","u","v","w","x","y","z","A","B","C","D","E","F","P","X"}

Range(s) == {s[k] : k \in 1..Len(s)}

DecChars == Range(DecDigits)
OctChars == {"0","1","2","3","4","5","6","7"}
HexChars == Range(LowerHex) \cup Range(UpperHex)
IsDec(c) == c \in DecChars
IsHex(c) == c \in HexChars
\* \w of a bytes pattern: [a-zA-Z0-9_]
WordChars == Letters \cup DecChars \cup {"_"}
IsWord(c) == c \in WordChars
\* bytes.rstrip() and int() strip ASCII whitespace
IsSpace(c) == c \in {" ", "\n", "\t", "\r"}

DigitVal(c) == (CHOOSE k \in 1..16 : LowerHex[k] = c \/ UpperHex[k] = c) - 1

startswith(s, p) == Len(s) >= Len(p) /\ SubSeq(s, 1, Len(p)) = p
endswith(s, p) == Len(s) >= Len(p) /\ SubSeq(s, Len(s) - Len(p) + 1, Len(s)) = p

RECURSIVE rstrip(_)
rstrip(s) ==
    IF s # <<>> /\ IsSpace(s[Len(s)]) THEN rstrip(SubSeq(s, 1, Len(s) - 1)) ELSE s

RECURSIVE lstrip(_)
lstrip(s) == IF s # <<>> /\ IsSpace(s[1]) THEN lstrip(Tail(s)) ELSE s

\* Index of the first c in s, 0 when there is none.
Find(s, c) ==
    IF c \in Range(s) THEN CHOOSE k \in 1..Len(s) : s[k] = c /\ \A j \in 1..(k - 1) : s[j] # c
    ELSE 0

\* bytes.partition(sep) for a one-byte separator: <<head, sep or empty, tail>>
partition(s, c) ==
    LET k == Find(s, c)
    IN  IF k = 0 THEN <<s, <<>>, <<>>>>
        ELSE <<SubSeq(s, 1, k - 1), <<c>>, SubSeq(s, k + 1, Len(s))>>

\* bytes.split(sep) for a one-byte separator; empty fields are kept.
RECURSIVE split(_, _)
split(s, c) ==
    LET k == Find(s, c)
    IN  IF k = 0 THEN <<s>>
        ELSE <<SubSeq(s, 1, k - 1)>> \o split(SubSeq(s, k + 1, Len(s)), c)

\* Accumulation of int(): digits most significant first, saturating at IntCap.
RECURSIVE DigitsValue(_, _, _)
DigitsValue(s, base, acc) ==
    IF s = <<>> THEN acc
    ELSE LET d == DigitVal(s[1])
         IN  DigitsValue(Tail(s), base,
                 IF acc > (IntCap - d) \div base THEN IntCap ELSE acc * base + d)

\* int(s, base): surrounding whitespace is ignored; anything but a non-empty run
\* of digits of the base raises ValueError.
int(s, base) ==
    LET t == rstrip(lstrip(s))
    IN  IF t # <<>> /\ \A k \in 1..Len(t) : IsHex(t[k]) /\ DigitVal(t[k]) < base
        THEN DigitsValue(t, base, 0)
        ELSE ValueError

(***************************************************************************)
(* Numeric clamp patcher.                                                  *)
(***************************************************************************)
\* The literal of key_value decoded as clamp_terminfo_number decodes it.
DecodeAssignment(key_value) ==
    LET int_str == partition(key_value, "#")[3]
    IN  IF startswith(int_str, <<"0","x">>) \/ startswith(int_str, <<"0","X">>)
        THEN int(SubSeq(int_str, 3, Len(int_str)), 16)
        ELSE IF startswith(int_str, <<"0">>) THEN int(int_str, 8)
        ELSE int(int_str, 10)

\* Faulty variant: the limit of an unsigned 16-bit field.
clamp_terminfo_number_unsigned(key_value) ==
    LET p == partition(key_value, "#")
        int_value == DecodeAssignment(key_value)
    IN  IF p[2] # <<"#">> THEN key_value
        ELSE IF int_value = ValueError THEN key_value
        ELSE IF int_value > 65535 THEN p[1] \o CLAMPED
        ELSE key_value

\* Faulty variant: >= for >, so a literal equal to 32767 is rewritten in decimal.
clamp_terminfo_number_ge(key_value) ==
    LET p == partition(key_value, "#")
        int_value == DecodeAssignment(key_value)
    IN  IF p[2] # <<"#">> THEN key_value
        ELSE IF int_value = ValueError THEN key_value
        ELSE IF int_value >= SHORT_MAX THEN p[1] \o CLAMPED
        ELSE key_value

clamp_terminfo_number(key_value) ==
    LET p == partition(key_value, "#")
        key == p[1]
        int_str == p[3]
        int_value ==
            IF startswith(int_str, <<"0","x">>) \/ startswith(int_str, <<"0","X">>)
            THEN int(SubSeq(int_str, 3, Len(int_str)), 16)
            ELSE IF startswith(int_str, <<"0">>) THEN int(int_str, 8)
            ELSE int(int_str, 10)
    IN  IF p[2] # <<"#">> THEN key_value
        ELSE IF int_value = ValueError THEN key_value
        ELSE IF int_value > SHORT_MAX THEN key \o CLAMPED
        ELSE key_value

\* End of the longest run of characters of class cls starting at i (i - 1 when
\* the run is empty).
RECURSIVE RunEnd(_, _, _)
RunEnd(s, i, cls) ==
    IF i <= Len(s) /\ s[i] \in cls THEN RunEnd(s, i + 1, cls) ELSE i - 1

\* \b at position i: exactly one of s[i-1], s[i] is a word character.
WordBoundary(s, i) ==
    LET before == i > 1 /\ IsWord(s[i - 1])
        after == i <= Len(s) /\ IsWord(s[i])
    IN  before # after

PAIRS_KEY == <<"p","a","i","r","s","#">>

\* TERMINFO_INTEGER_PATTERN matched at position i: index of the last byte of
\* the match, 0 when it does not match there.  The alternatives are tried in
\* order, each greedy.
MatchEnd(s, i) ==
    LET n == i + Len(PAIRS_KEY)
        hexEnd == IF n + 1 <= Len(s) /\ s[n] = "0" /\ s[n + 1] \in {"X", "x"}
                  THEN RunEnd(s, n + 2, HexChars) ELSE 0
        octEnd == IF n <= Len(s) /\ s[n] = "0" THEN RunEnd(s, n + 1, OctChars) ELSE 0
        decEnd == IF n <= Len(s) /\ IsDec(s[n]) /\ s[n] # "0"
                  THEN RunEnd(s, n + 1, DecChars) ELSE 0
    IN  IF ~(WordBoundary(s, i) /\ n - 1 <= Len(s) /\ SubSeq(s, i, n - 1) = PAIRS_KEY)
        THEN 0
        ELSE IF hexEnd >= n + 2 THEN hexEnd
        ELSE IF octEnd >= n + 1 THEN octEnd
        ELSE IF decEnd >= n THEN decEnd
        ELSE 0

\* TERMINFO_INTEGER_PATTERN.sub(callback, s) from position i on.
RECURSIVE SubFrom(_, _)
SubFrom(s, i) ==
    IF i > Len(s) THEN <<>>
    ELSE LET e == MatchEnd(s, i)
         IN  IF e > 0 THEN clamp_terminfo_number(SubSeq(s, i, e)) \o SubFrom(s, e + 1)
             ELSE <<s[i]>> \o SubFrom(s, i + 1)

patch_shorts(terminfo_src) == SubFrom(terminfo_src, 1)

(***************************************************************************)
(* Results of the external processes and values of the environment.       *)
(***************************************************************************)
\* subprocess.run(..., check=True): the process could not be launched
\* (OSError), exited non-zero (CalledProcessError), or exited 0 with stdout.
Ran(out) == [launched |-> TRUE, returncode |-> 0, stdout |-> out]
NotLaunched == [launched |-> FALSE, returncode |-> 0, stdout |-> <<>>]
ExitedNonZero(out) == [launched |-> TRUE, returncode |-> 1, stdout |-> out]

Succeeded(r) == r.launched /\ r.returncode = 0
Raised(r) == IF r.launched THEN "CalledProcessError" ELSE "OSError"

TicProbeResults ==
    { NotLaunched, ExitedNonZero(<<>>),
      Ran(NCURSES_STOCK_EXPECTED_VERSION \o <<"\n">>),
      Ran(NCURSES_STOCK_EXPECTED_VERSION),
      Ran(<<" ">> \o NCURSES_STOCK_EXPECTED_VERSION \o <<"\n">>),
      Ran(NCURSES_STOCK_EXPECTED_VERSION \o <<"x","\n">>),
      Ran(<<"n","c","u","r","s","e","s"," ","6",".","4","\n">>) }

PortResults ==
    { NotLaunched,
      Ran(<<"P","o","r","t"," ","n","c","u","r","s","e","s"," ","i","s"," ","n","o","t"," ","i",
              "n","s","t","a","l","l","e","d","\n">>),
      Ran(<<"P","o","r","t"," ","n","c","u","r","s","e","s"," ","c","o","n","t","a","i","n","s",
              ":","\n"," "," ","/","o","p","t","/","b","i","n","/","i","n","f","o","c","m","p",
                      "\n"," "," ","/","o","p","t","/","b","i","n","/","t","i","c","\n">>),
      Ran(<<"P","o","r","t"," ","n","c","u","r","s","e","s"," ","c","o","n","t","a","i","n","s",
              ":","\n","/","o","p","t","/","b","i","n","/","i","n","f","o","c","m","p","\n">>),
      Ran(<<"P","o","r","t"," ","o","t","h","e","r"," ","c","o","n","t","a","i","n","s",":",
              "\n"," "," ","/","o","p","t","/","b","i","n","/","i","n","f","o","c","m","p",
                      "\n">>) }

BrewResults ==
    { NotLaunched,
      ExitedNonZero(<<"/","b","r","e","w","/","b","i","n","/","i","n","f","o","c","m","p",
              "\n">>),
      Ran(<<"/","b","r","e","w","/","b","i","n","/","t","i","c","\n","/","b","r","e","w","/",
              "b","i","n","/","i","n","f","o","c","m","p","x","\n">>),
      Ran(<<"/","b","r","e","w","/","b","i","n","/","i","n","f","o","c","m","p","\n","/","b",
              "r","e","w","/","b","i","n","/","t","i","c","\n">>),
      Ran(<<"/","b","r","e","w","/","b","i","n","/","i","n","f","o","c","m","p","\r","\n","/",
              "o","l","d","/","b","i","n","/","i","n","f","o","c","m","p">>) }

InfocmpProbeResults ==
    { NotLaunched, ExitedNonZero(<<"n","c","u","r","s","e","s"," ","6",".","4","\n">>),
      Ran(<<"n","c","u","r","s","e","s"," ","6",".","4","\n">>),
      Ran(<<"n","c","u","r","s","e","s"," ","6",".","1","0","\n">>),
      Ran(<<"n","c","u","r","s","e","s"," ","6",".","4",".","1","\n">>),
      Ran(<<"n","c","u","r","s","e","s"," ","6",".","x","\n">>),
      Ran(<<"c","u","r","s","e","s"," ","6",".","1","0","\n">>) }

ExportResults ==
    { NotLaunched, ExitedNonZero(<<"p","a","i","r","s","#","0","x","1","0","0","0","0",",",
            "\n">>),
      Ran(<<"c","o","l","o","r","s","#","0","x","1","0","0",",","\n","\t","p","a","i","r","s",
              "#","0","x","1","0","0","0","0",",","\n">>),
      Ran(<<"p","a","i","r","s","#","3","2","7","6","7",",","\n">>) }

Homes == { <<"/","h">> }

\* Values of TERMINFO_DIRS tried against the installation directory d; None is
\* the unset variable.
TerminfoDirsFor(d) ==
    { None, Some(<<>>), Some(d), Some(<<"/","x",":">> \o d), Some(d \o <<":","/","x">>),
      Some(d \o <<"/">>), Some(<<"/","x">> \o d), Some(SubSeq(d, 1, Len(d) - 1)) }

(***************************************************************************)
(* Python primitives of the selector and of main().                       *)
(***************************************************************************)
\* bytes.splitlines(keepends=False): lines end at \n, \r or \r\n.
RECURSIVE SplitLinesFrom(_, _, _, _)
SplitLinesFrom(s, i, cur, acc) ==
    IF i > Len(s) THEN (IF cur = <<>> THEN acc ELSE Append(acc, cur))
    ELSE IF s[i] = "\n" THEN SplitLinesFrom(s, i + 1, <<>>, Append(acc, cur))
    ELSE IF s[i] = "\r"
         THEN SplitLinesFrom(s, IF i < Len(s) /\ s[i + 1] = "\n" THEN i + 2 ELSE i + 1,
                             <<>>, Append(acc, cur))
    ELSE SplitLinesFrom(s, i + 1, Append(cur, s[i]), acc)

splitlines(s) == SplitLinesFrom(s, 1, <<>>, <<>>)

\* Faulty variant: >= for >, so a later candidate of equal version replaces the best.
TupleGreater_ge(a, b) ==
    LET m == IF Len(a) < Len(b) THEN Len(a) ELSE Len(b)
        D == {k \in 1..m : a[k] # b[k]}
        d == CHOOSE k \in D : \A j \in D : k <= j
    IN  IF D = {} THEN Len(a) >= Len(b) ELSE a[d] > b[d]

\* Python's a > b on tuples of integers: the first differing component
\* decides; a tuple is greater than its proper prefixes.
TupleGreater(a, b) ==
    LET m == IF Len(a) < Len(b) THEN Len(a) ELSE Len(b)
        D == {k \in 1..m : a[k] # b[k]}
        d == CHOOSE k \in D : \A j \in D : k <= j
    IN  IF D = {} THEN Len(a) > Len(b) ELSE a[d] > b[d]

\* tuple(int(n) for n in version_n.decode("ascii").split(".")); None stands for
\* the ValueError of a component that is no integer.
VersionKey(version_n) ==
    LET parts == split(version_n, ".")
        key == [k \in 1..Len(parts) |-> int(parts[k], 10)]
    IN  IF \E k \in 1..Len(parts) : key[k] = ValueError THEN None ELSE Some(key)

\* package_files_macports: the lines of `port contents` after the validated
\* header that start with two spaces, without them.
package_files_macports(r, package_name) ==
    LET expected_header == <<"P","o","r","t"," ">> \o package_name
                               \o <<" ","c","o","n","t","a","i","n","s",":">>
        lines == splitlines(r.stdout)
        Indented(line) == startswith(line, <<" "," ">>)
        rest == SelectSeq(Tail(lines), Indented)
    IN  IF ~Succeeded(r) THEN <<>>
        ELSE IF Len(lines) > 1 /\ lines[1] = expected_header
             THEN [k \in 1..Len(rest) |-> SubSeq(rest[k], 3, Len(rest[k]))]
        ELSE <<>>

\* package_files_homebrew: the lines of `brew ls --verbose`.
package_files_homebrew(r, package_name) ==
    IF ~Succeeded(r) THEN <<>> ELSE splitlines(r.stdout)

\* Faulty variant: the fallback name is never added.
WithFallback_never(found) == found

\* Faulty variant: the fallback name is tried after the inventory candidates.
WithFallback_always(found) == Append(found, INFOCMP_FALLBACK)

\* Lines 100-101: an empty inventory is replaced by the bare fallback name.
WithFallback(found) == IF Len(found) = 0 THEN <<INFOCMP_FALLBACK>> ELSE found

get_user_terminfo_dir(home) ==
    home \o <<"/",".","l","o","c","a","l","/","s","h","a","r","e","/",
              "t","e","r","m","i","n","f","o">>

\* Python values carry their type: str or bytes.
PyNone == [t |-> "NoneType", v |-> <<>>]
Str(v) == [t |-> "str", v |-> v]
Bytes(v) == [t |-> "bytes", v |-> v]
fsencode(x) == Bytes(x.v)
fsdecode(x) == Str(x.v)
pathsep == ":"

\* Faulty variant: `dir_ in path_list`, a substring test, for membership in the split list.
dir_in_path_substring(dir_, path_list) ==
    IF path_list = PyNone THEN FALSE
    ELSE \E i \in 1..(Len(path_list.v) + 1) :
            /\ i + Len(dir_.v) - 1 <= Len(path_list.v)
            /\ SubSeq(path_list.v, i, i + Len(dir_.v) - 1) = dir_.v

dir_in_path(dir_, path_list) ==
    IF path_list = PyNone THEN FALSE
    ELSE IF path_list.t = "str"
         THEN LET paths == split(path_list.v, pathsep)
                  d == IF dir_.t = "bytes" THEN fsdecode(dir_) ELSE dir_
              IN  \E k \in 1..Len(paths) : Str(paths[k]) = d
    ELSE IF path_list.t = "bytes"
         THEN LET paths == split(path_list.v, pathsep)
                  d == IF dir_.t = "str" THEN fsencode(dir_) ELSE dir_
              IN  \E k \in 1..Len(paths) : Bytes(paths[k]) = d
    ELSE "TypeError"

\* The patcher harness is idle while main() runs, and main() while it runs.
HarnessOff ==
    /\ stage = "off"
    /\ src = <<>>
    /\ once = <<>>
    /\ twice = <<>>

MainIdle ==
    /\ exit_status = None
    /\ exception = "none"
    /\ calls = <<>>
    /\ stock_tic_version = None
    /\ port_result = None
    /\ brew_result = None
    /\ candidates = <<>>
    /\ probed = <<>>
    /\ best_exe = None
    /\ best_version_key = None
    /\ find_returned = FALSE
    /\ infocmp = None
    /\ export_exe = None
    /\ export_stdout = <<>>
    /\ term_src = <<>>
    /\ warned = FALSE
    /\ out_dir = Str(<<>>)
    /\ tempdir = "none"
    /\ disk = {}
    /\ pending = "none"
    /\ src_file = None
    /\ compiled = None
    /\ terminfo_dirs = None
    /\ guidance = FALSE

MainOff == pc = "off" /\ MainIdle

(***************************************************************************)
(* main(): one action per step of the pipeline.                            *)
(***************************************************************************)
Call(step, ok) == [step |-> step, ok |-> ok]

\* Leaving main() with an uncaught exception: traceback, exit status 1.
Fail(exc) ==
    /\ pc' = "Failed"
    /\ exit_status' = Some(1)
    /\ exception' = exc

Init ==
    /\ pc = "VerifySystemCompiler"
    /\ MainIdle
    /\ HarnessOff

\* Faulty variant: a version mismatch only warns, and the run goes on.
VerifySystemCompiler_warn ==
    /\ pc = "VerifySystemCompiler"
    /\ \E r \in TicProbeResults :
          /\ calls' = Append(calls, Call("tic -V", Succeeded(r)))
          /\ IF ~Succeeded(r)
             THEN Fail(Raised(r)) /\ UNCHANGED stock_tic_version
             ELSE /\ stock_tic_version' = Some(rstrip(r.stdout))
                  /\ pc' = "SelectDecompiler"
                  /\ UNCHANGED <<exit_status, exception>>
    /\ UNCHANGED <<selvars, latevars, pvars>>

\* Lines 193-202.
VerifySystemCompiler ==
    /\ pc = "VerifySystemCompiler"
    /\ \E r \in TicProbeResults :
          /\ calls' = Append(calls, Call("tic -V", Succeeded(r)))
          /\ IF ~Succeeded(r)
             THEN Fail(Raised(r)) /\ UNCHANGED stock_tic_version
             ELSE /\ stock_tic_version' = Some(rstrip(r.stdout))
                  /\ IF stock_tic_version'[1] # NCURSES_STOCK_EXPECTED_VERSION
                     THEN /\ pc' = "Failed"
                          /\ exit_status' = Some(1)
                          /\ UNCHANGED exception
                     ELSE /\ pc' = "SelectDecompiler"
                          /\ UNCHANGED <<exit_status, exception>>
    /\ UNCHANGED <<selvars, latevars, pvars>>

\* find_infocmp, lines 90-105: both inventories are read, the paths ending in
\* /bin/infocmp are kept, and the fallback stands in for an empty list.
ScanInventories ==
    /\ pc = "SelectDecompiler"
    /\ \E mp \in PortResults, hb \in BrewResults :
          LET IsInfocmp(file) == endswith(file, INFOCMP_SUFFIX)
              found == SelectSeq(package_files_macports(mp, PACKAGE_NAME)
                                     \o package_files_homebrew(hb, PACKAGE_NAME),
                                 IsInfocmp)
          IN  /\ port_result' = Some(mp)
              /\ brew_result' = Some(hb)
              /\ candidates' = WithFallback(found)
              /\ calls' = calls \o <<Call("port contents", Succeeded(mp)),
                                     Call("brew ls", Succeeded(hb))>>
    /\ pc' = "Probe"
    /\ UNCHANGED <<exit_status, exception, stock_tic_version, probed, best_exe,
                   best_version_key, find_returned, infocmp, latevars, pvars>>

\* find_infocmp, lines 106-126: one iteration of the probe loop.
ProbeCandidate ==
    /\ pc = "Probe"
    /\ Len(probed) < Len(candidates)
    /\ \E r \in InfocmpProbeResults :
          LET exe == candidates[Len(probed) + 1]
              version_str == rstrip(r.stdout)
              version_n == SubSeq(version_str, Len(NCURSES_VERSION_PREFIX) + 1,
                                  Len(version_str))
              version_key == VersionKey(version_n)
          IN  /\ probed' = Append(probed, [exe |-> exe, result |-> r])
              /\ calls' = Append(calls, Call("infocmp -V", Succeeded(r)))
              /\ IF Succeeded(r) /\ startswith(version_str, NCURSES_VERSION_PREFIX)
                 THEN IF version_key = None
                      THEN Fail("ValueError") /\ UNCHANGED <<best_exe, best_version_key>>
                      ELSE /\ IF best_version_key = None
                                 \/ TupleGreater(version_key[1], best_version_key[1])
                              THEN /\ best_exe' = Some(exe)
                                   /\ best_version_key' = version_key
                              ELSE UNCHANGED <<best_exe, best_version_key>>
                           /\ UNCHANGED <<pc, exit_status, exception>>
                 ELSE UNCHANGED <<pc, exit_status, exception, best_exe, best_version_key>>
    /\ UNCHANGED <<stock_tic_version, port_result, brew_result, candidates,
                   find_returned, infocmp, latevars, pvars>>

\* find_infocmp, lines 128-132, and main, lines 204-207.
SelectDecompiler ==
    /\ pc = "Probe"
    /\ Len(probed) = Len(candidates)
    /\ find_returned' = TRUE
    /\ infocmp' = best_exe
    /\ IF best_exe = None
       THEN /\ pc' = "Failed"
            /\ exit_status' = Some(1)
            /\ UNCHANGED exception
       ELSE /\ pc' = "Export"
            /\ UNCHANGED <<exit_status, exception>>
    /\ UNCHANGED <<calls, stock_tic_version, port_result, brew_result, candidates,
                   probed, best_exe, best_version_key, latevars, pvars>>

\* Faulty variant: check=False, the decompiler's exit status is not looked at.
Export_unchecked ==
    /\ pc = "Export"
    /\ \E r \in ExportResults :
          /\ export_exe' = infocmp
          /\ calls' = Append(calls, Call("infocmp -x", Succeeded(r)))
          /\ IF ~r.launched
             THEN Fail(Raised(r)) /\ UNCHANGED export_stdout
             ELSE /\ export_stdout' = r.stdout
                  /\ pc' = "Patch"
                  /\ UNCHANGED <<exit_status, exception>>
    /\ UNCHANGED <<stock_tic_version, selvars, term_src, warned, out_dir, tempdir, disk,
                   pending, src_file, compiled, terminfo_dirs, guidance, pvars>>

\* Lines 209-215.
Export ==
    /\ pc = "Export"
    /\ \E r \in ExportResults :
          /\ export_exe' = infocmp
          /\ calls' = Append(calls, Call("infocmp -x", Succeeded(r)))
          /\ IF ~Succeeded(r)
             THEN Fail(Raised(r)) /\ UNCHANGED export_stdout
             ELSE /\ export_stdout' = r.stdout
                  /\ pc' = "Patch"
                  /\ UNCHANGED <<exit_status, exception>>
    /\ UNCHANGED <<stock_tic_version, selvars, term_src, warned, out_dir, tempdir, disk,
                   pending, src_file, compiled, terminfo_dirs, guidance, pvars>>

\* Lines 220-222.
Patch ==
    /\ pc = "Patch"
    /\ term_src' = patch_shorts(export_stdout)
    /\ warned' = (term_src' = export_stdout)
    /\ calls' = Append(calls, Call("patch_shorts", TRUE))
    /\ pc' = "MakeOutDir"
    /\ UNCHANGED <<exit_status, exception, stock_tic_version, selvars, export_exe,
                   export_stdout,
                   out_dir, tempdir, disk, pending, src_file, compiled, terminfo_dirs, guidance,
                   pvars>>

\* Lines 224-226: os.makedirs(out_dir, exist_ok=True) may raise OSError.
MakeOutDir ==
    /\ pc = "MakeOutDir"
    /\ \E home \in Homes, ok \in BOOLEAN :
          /\ out_dir' = Str(get_user_terminfo_dir(home))
          /\ calls' = Append(calls, Call("makedirs", ok))
          /\ IF ok THEN pc' = "MkTemp" /\ UNCHANGED <<exit_status, exception>>
             ELSE Fail("OSError")
    /\ UNCHANGED <<stock_tic_version, selvars, export_exe, export_stdout, term_src, warned,
                   tempdir,
                   disk, pending, src_file, compiled, terminfo_dirs, guidance, pvars>>

\* Line 228: tempfile.mkdtemp() creates the scratch directory or raises.
MkTemp ==
    /\ pc = "MkTemp"
    /\ \E ok \in BOOLEAN :
          /\ calls' = Append(calls, Call("mkdtemp", ok))
          /\ IF ok
             THEN /\ tempdir' = "tmpdir"
                  /\ disk' = disk \cup {"tmpdir"}
                  /\ pc' = "WriteScratch"
                  /\ UNCHANGED <<exit_status, exception>>
             ELSE Fail("OSError") /\ UNCHANGED <<tempdir, disk>>
    /\ UNCHANGED <<stock_tic_version, selvars, export_exe, export_stdout, term_src, warned,
                   out_dir,
                   pending, src_file, compiled, terminfo_dirs, guidance, pvars>>

\* Faulty variant: the export output is written, not the patched source.
WriteScratch_unpatched ==
    /\ pc = "WriteScratch"
    /\ \E ok \in BOOLEAN :
          /\ calls' = Append(calls, Call("write", ok))
          /\ IF ok THEN pc' = "Compile" /\ src_file' = Some(export_stdout) /\ UNCHANGED pending
             ELSE pc' = "Cleanup" /\ pending' = "OSError" /\ UNCHANGED src_file
    /\ UNCHANGED <<exit_status, exception, stock_tic_version, selvars, export_exe,
                   export_stdout,
                   term_src, warned, out_dir, tempdir, disk, compiled, terminfo_dirs,
                   guidance, pvars>>

\* Lines 230-232, inside try: an OSError from the write goes to the finally.
WriteScratch ==
    /\ pc = "WriteScratch"
    /\ \E ok \in BOOLEAN :
          /\ calls' = Append(calls, Call("write", ok))
          /\ IF ok THEN pc' = "Compile" /\ src_file' = Some(term_src) /\ UNCHANGED pending
             ELSE pc' = "Cleanup" /\ pending' = "OSError" /\ UNCHANGED src_file
    /\ UNCHANGED <<exit_status, exception, stock_tic_version, selvars, export_exe,
                   export_stdout,
                   term_src, warned, out_dir, tempdir, disk, compiled, terminfo_dirs,
                   guidance, pvars>>

\* Faulty variant: no try/finally, a failed compile leaves main() at once.
Compile_nofinally ==
    /\ pc = "Compile"
    /\ \E r \in {NotLaunched, ExitedNonZero(<<>>), Ran(<<>>)} :
          /\ calls' = Append(calls, Call("tic -x", Succeeded(r)))
          /\ IF Succeeded(r)
             THEN /\ compiled' = src_file
                  /\ pc' = "Cleanup"
                  /\ UNCHANGED <<exit_status, exception>>
             ELSE Fail(Raised(r)) /\ UNCHANGED compiled
    /\ UNCHANGED <<stock_tic_version, selvars, export_exe, export_stdout, term_src, warned,
                   src_file, out_dir,
                   tempdir, disk, pending, terminfo_dirs, guidance, pvars>>

\* Lines 233-238, inside try.
Compile ==
    /\ pc = "Compile"
    /\ \E r \in {NotLaunched, ExitedNonZero(<<>>), Ran(<<>>)} :
          /\ calls' = Append(calls, Call("tic -x", Succeeded(r)))
          /\ IF Succeeded(r)
             THEN compiled' = src_file /\ UNCHANGED pending
             ELSE pending' = Raised(r) /\ UNCHANGED compiled
    /\ pc' = "Cleanup"
    /\ UNCHANGED <<exit_status, exception, stock_tic_version, selvars, export_exe,
                   export_stdout,
                   term_src, warned, src_file, out_dir, tempdir, disk, terminfo_dirs, guidance,
                   pvars>>

\* Lines 239-242: the finally clause removes the scratch directory, then a
\* pending exception leaves main().
Cleanup ==
    /\ pc = "Cleanup"
    /\ disk' = disk \ {tempdir}
    /\ calls' = Append(calls, Call("rmtree", TRUE))
    /\ IF pending # "none" THEN Fail(pending)
       ELSE pc' = "VerifyPathVisibility" /\ UNCHANGED <<exit_status, exception>>
    /\ UNCHANGED <<stock_tic_version, selvars, export_exe, export_stdout, term_src, warned,
                   out_dir,
                   tempdir, pending, src_file, compiled, terminfo_dirs, guidance, pvars>>

\* Lines 244-258.
VerifyPathVisibility ==
    /\ pc = "VerifyPathVisibility"
    /\ \E env \in TerminfoDirsFor(out_dir.v) :
          /\ terminfo_dirs' = env
          /\ guidance' = ~dir_in_path(out_dir, IF env = None THEN PyNone ELSE Bytes(env[1]))
    /\ pc' = "Done"
    /\ exit_status' = Some(0)
    /\ UNCHANGED <<exception, calls, stock_tic_version, selvars, export_exe, export_stdout,
                   term_src,
                   warned, out_dir, tempdir, disk, pending, src_file, compiled, pvars>>

Next ==
    \/ VerifySystemCompiler
    \/ ScanInventories
    \/ ProbeCandidate
    \/ SelectDecompiler
    \/ Export
    \/ Patch
    \/ MakeOutDir
    \/ MkTemp
    \/ WriteScratch
    \/ Compile
    \/ Cleanup
    \/ VerifyPathVisibility

Spec == Init /\ [][Next]_vars

(***************************************************************************)
(* Patcher harness: a source is drawn from concatenations of fragments and *)
(* patched once, then again.                                               *)
(***************************************************************************)
Literals ==
    { <<"0","x","1","0","0","0","0">>,
      <<"0","X","7","f","f","f">>,
      <<"0","1","0","0","0","0","0">>,
      <<"0","7","7","7","7","7">>,
      <<"3","2","7","6","8">> }

Fragments ==
    {PAIRS_KEY \o l : l \in Literals}
        \cup { <<"c","o","l","o","r","s","#","0","x","1","0","0","0","0">>,
               PAIRS_KEY, <<"3","2","7","6","7">>, <<"8">>, <<"x">>, <<",","\n","\t">> }

RECURSIVE Flatten(_)
Flatten(ss) == IF ss = <<>> THEN <<>> ELSE Head(ss) \o Flatten(Tail(ss))

Sources == {Flatten(fs) : fs \in UNION {[1..n -> Fragments] : n \in 0..MaxFrags}}

InitPatch ==
    /\ MainOff
    /\ stage = "input"
    /\ src \in Sources
    /\ once = <<>>
    /\ twice = <<>>

PatchOnce ==
    /\ stage = "input"
    /\ once' = patch_shorts(src)
    /\ stage' = "once"
    /\ UNCHANGED <<src, twice, mainvars>>

PatchTwice ==
    /\ stage = "once"
    /\ twice' = patch_shorts(once)
    /\ stage' = "twice"
    /\ UNCHANGED <<src, once, mainvars>>

NextPatch == PatchOnce \/ PatchTwice

SpecPatch == InitPatch /\ [][NextPatch]_vars

(***************************************************************************)
(* Capability assignments as the specification describes them, for the     *)
(* statements about the patcher.                                           *)
(***************************************************************************)
\* Last byte of the longest integer literal starting at n (hex 0x/0X, octal
\* with a leading 0, decimal, or the single digit 0); 0 when there is none.
LiteralEnd(s, n) ==
    IF n > Len(s) \/ ~IsDec(s[n]) THEN 0
    ELSE IF s[n] # "0" THEN RunEnd(s, n + 1, DecChars)
    ELSE IF n + 2 <= Len(s) /\ s[n + 1] \in {"x", "X"} /\ IsHex(s[n + 2])
         THEN RunEnd(s, n + 2, HexChars)
    ELSE RunEnd(s, n + 1, OctChars)

\* Decoded value of the literal starting at n (0 when there is none).
LiteralValue(s, n) ==
    LET e == LiteralEnd(s, n)
    IN  IF e = 0 THEN 0
        ELSE IF e = n THEN DigitVal(s[n])
        ELSE IF s[n] # "0" THEN DigitsValue(SubSeq(s, n, e), 10, 0)
        ELSE IF s[n + 1] \in {"x", "X"} THEN DigitsValue(SubSeq(s, n + 2, e), 16, 0)
        ELSE DigitsValue(SubSeq(s, n + 1, e), 8, 0)

\* Start of the run of word characters that ends at position e (e + 1 when
\* the run is empty).
RECURSIVE WordRunStart(_, _)
WordRunStart(s, e) == IF e >= 1 /\ IsWord(s[e]) THEN WordRunStart(s, e - 1) ELSE e + 1

\* The word characters that end at position e form an identifier: the run is
\* not empty and starts with a letter.
IdentifierEndsAt(s, e) ==
    LET b == WordRunStart(s, e) IN b <= e /\ s[b] \in Letters

\* Positions h of a '#' that ends an identifier and starts an integer literal.
AssignmentHashes(s) ==
    {h \in 2..Len(s) : s[h] = "#" /\ IdentifierEndsAt(s, h - 1) /\ LiteralEnd(s, h + 1) > 0}

OverflowHashes(s) == {h \in AssignmentHashes(s) : LiteralValue(s, h + 1) > 32767}

\* Positions of the '#' of an assignment whose identifier is exactly `pairs`.
PairsHashes(s) ==
    {h \in AssignmentHashes(s) :
        /\ h >= 6
        /\ SubSeq(s, h - 5, h) = <<"p","a","i","r","s","#">>
        /\ (h = 6 \/ ~IsWord(s[h - 6]))}

Rank(S, h) == Cardinality({g \in S : g <= h})

Decimal32767 == <<"3","2","7","6","7">>

\* y differs from x (from positions i and k on) only in that literals of
\* overflowing assignments of x are replaced by 32767.
RECURSIVE OnlyOverflowsChanged(_, _, _, _)
OnlyOverflowsChanged(x, y, i, k) ==
    \/ SubSeq(x, i, Len(x)) = SubSeq(y, k, Len(y))
    \/ \E h \in OverflowHashes(x) :
          /\ h >= i
          /\ k + (h - i) + 5 <= Len(y)
          /\ SubSeq(x, i, h) = SubSeq(y, k, k + (h - i))
          /\ SubSeq(y, k + (h - i) + 1, k + (h - i) + 5) = Decimal32767
          /\ OnlyOverflowsChanged(x, y, LiteralEnd(x, h + 1) + 1, k + (h - i) + 6)

\* C2: patching a patched source changes nothing.
ClampIdempotent == stage = "twice" => twice = once

BytePreservation ==
    stage \in {"once", "twice"} =>
        /\ OnlyOverflowsChanged(src, once, 1, 1)
        /\ (OverflowHashes(src) = {} => once = src)

BytePreservationWitness ==
    /\ stage = "once"
    /\ once # src
    /\ "\n" \in Range(once)
    /\ AssignmentHashes(src) \ OverflowHashes(src) # {}

(***************************************************************************)
(* Statements about main() and find_infocmp.                               *)
(***************************************************************************)
Terminated == pc \in {"Done", "Failed"}

Invoked(step, ok) == \E k \in 1..Len(calls) : calls[k] = Call(step, ok)

\* A probe whose process succeeded and whose output has the product prefix.
ProbeViable(p) ==
    Succeeded(p.result) /\ startswith(rstrip(p.result.stdout), NCURSES_VERSION_PREFIX)

\* The version key of a viable probe, None when the version does not parse.
ProbeKey(p) ==
    LET version_str == rstrip(p.result.stdout)
    IN  VersionKey(SubSeq(version_str, Len(NCURSES_VERSION_PREFIX) + 1, Len(version_str)))

ProbeParsed(p) == ProbeViable(p) /\ ProbeKey(p) # None

\* a before b, components compared as integers from the left; a proper prefix
\* comes before its extensions.
KeyLess(a, b) ==
    \/ \E i \in 1..Len(a) :
          /\ i <= Len(b)
          /\ a[i] < b[i]
          /\ \A j \in 1..(i - 1) : a[j] = b[j]
    \/ Len(a) < Len(b) /\ a = SubSeq(b, 1, Len(a))

\* d is one of the entries of the colon-separated list env.
IsEntry(d, env) ==
    /\ env # None
    /\ \E i \in 1..(Len(env[1]) + 1) :
          /\ i = 1 \/ env[1][i - 1] = ":"
          /\ i + Len(d) - 1 <= Len(env[1])
          /\ SubSeq(env[1], i, i + Len(d) - 1) = d
          /\ i + Len(d) > Len(env[1]) \/ env[1][i + Len(d)] = ":"

\* Neither inventory holds a path ending in /bin/infocmp.
NoInventoryCandidate ==
    /\ port_result # None
    /\ brew_result # None
    /\ \A f \in Range(package_files_macports(port_result[1], PACKAGE_NAME))
                  \cup Range(package_files_homebrew(brew_result[1], PACKAGE_NAME)) :
          ~endswith(f, INFOCMP_SUFFIX)

\* C1: when the stripped output of the system tic probe differs from the
\* expected literal, the run is Failed with exit status 1 and the probe is the
\* only step that was ever invoked.
VersionGate ==
    (stock_tic_version # None /\ stock_tic_version[1] # NCURSES_STOCK_EXPECTED_VERSION)
        => /\ pc = "Failed"
           /\ exit_status = Some(1)
           /\ calls = <<Call("tic -V", TRUE)>>

VersionGateWitness ==
    /\ stock_tic_version # None
    /\ stock_tic_version[1] # NCURSES_STOCK_EXPECTED_VERSION
    /\ startswith(stock_tic_version[1], NCURSES_STOCK_EXPECTED_VERSION)
    /\ pc = "Failed"

\* C5: once the run has terminated, the scratch directory it created is gone,
\* whichever way the run left the try block.
ScratchCleanup == Terminated => disk = {}

ScratchCleanupWitness ==
    /\ pc = "Failed"
    /\ tempdir # "none"
    /\ Invoked("tic -x", FALSE)
    /\ Invoked("rmtree", TRUE)

\* C6: what find_infocmp returns is a viable candidate whose version key no
\* viable candidate exceeds, the first probed among those of that key; it
\* returns no candidate only when none was viable.
SelectionRule ==
    find_returned =>
        LET V == {k \in 1..Len(probed) : ProbeViable(probed[k])}
        IN  IF V = {} THEN infocmp = None
            ELSE \E k \in V :
                    /\ infocmp = Some(probed[k].exe)
                    /\ ProbeParsed(probed[k])
                    /\ \A j \in V :
                          /\ ~KeyLess(ProbeKey(probed[k])[1], ProbeKey(probed[j])[1])
                          /\ ProbeKey(probed[j]) = ProbeKey(probed[k]) => k <= j

SelectionRuleWitness ==
    /\ find_returned
    /\ \E j, k \in 1..Len(probed) :
          /\ j < k
          /\ ProbeParsed(probed[j])
          /\ ProbeParsed(probed[k])
          /\ ProbeKey(probed[j]) = ProbeKey(probed[k])
          /\ probed[j].exe # probed[k].exe
          /\ infocmp = Some(probed[j].exe)
    /\ \E i \in 1..Len(probed) :
          ProbeParsed(probed[i]) /\ Some(probed[i].exe) # infocmp
              /\ KeyLess(ProbeKey(probed[i])[1], best_version_key[1])

\* C7: a candidate that is not viable or whose version does not parse is
\* skipped: when the run fails during selection, every candidate has been
\* probed and none of them had a version.
NonViableSkipped ==
    (pc = "Failed" /\ probed # <<>> /\ infocmp = None)
        => /\ Len(probed) = Len(candidates)
           /\ \A k \in 1..Len(probed) : ~ProbeParsed(probed[k])

\* C8: with no inventory candidate, the only candidate ever probed is the bare
\* name infocmp, and find_infocmp returns only after probing it once.
FallbackProbed ==
    NoInventoryCandidate =>
        /\ candidates = <<INFOCMP_FALLBACK>>
        /\ Len(probed) <= 1
        /\ \A k \in 1..Len(probed) : probed[k].exe = INFOCMP_FALLBACK
        /\ find_returned => Len(probed) = 1

FallbackProbedWitness ==
    /\ NoInventoryCandidate
    /\ find_returned
    /\ infocmp = None
    /\ probed # <<>>
    /\ pc = "Failed"

RequiredSteps == {"tic -V", "infocmp -x", "tic -x"}

\* C9: a required step that failed is the last step invoked (only the removal
\* of the scratch directory follows a failed compile), it was invoked once,
\* and the run is Failed with exit status 1; so is a run whose selection
\* returned no decompiler.
FailFast ==
    /\ \A k \in 1..Len(calls) :
          (calls[k].step \in RequiredSteps /\ ~calls[k].ok) =>
              /\ pc \in (IF calls[k].step = "tic -x" THEN {"Cleanup", "Failed"}
                         ELSE {"Failed"})
              /\ pc = "Failed" => exit_status = Some(1)
              /\ \A j \in (k + 1)..Len(calls) :
                    calls[k].step = "tic -x" /\ calls[j].step = "rmtree"
    /\ \A s \in RequiredSteps : Cardinality({k \in 1..Len(calls) : calls[k].step = s}) <= 1
    /\ (find_returned /\ infocmp = None) =>
          /\ pc = "Failed"
          /\ exit_status = Some(1)
          /\ calls[Len(calls)].step = "infocmp -V"

FailFastWitness ==
    /\ pc = "Failed"
    /\ Invoked("infocmp -x", FALSE)
    /\ exception = "CalledProcessError"

\* C10: after a successful compile the run ends Done with exit status 0, and
\* the advice is printed exactly when the installation directory is not an
\* entry of TERMINFO_DIRS.
PathAdvisory ==
    Invoked("tic -x", TRUE) =>
        /\ pc \in {"Cleanup", "VerifyPathVisibility", "Done"}
        /\ pc = "Done" =>
              /\ exit_status = Some(0)
              /\ guidance <=> ~IsEntry(out_dir.v, terminfo_dirs)

PathAdvisoryWitness ==
    /\ pc = "Done"
    /\ guidance
    /\ terminfo_dirs # None
    /\ Len(terminfo_dirs[1]) > Len(out_dir.v)

StageOrder ==
    <<"VerifySystemCompiler", "SelectDecompiler", "Probe", "Export", "Patch", "MakeOutDir",
      "MkTemp", "WriteScratch", "Compile", "Cleanup", "VerifyPathVisibility", "Done">>

StageRank(p) == CHOOSE k \in 1..Len(StageOrder) : StageOrder[k] = p

\* One step of main() moves to the next stage, or to Failed; a failed write goes
\* through the removal of the scratch directory first.  The probe loop stays in
\* its stage for one more candidate of the list.  Nothing follows Done or Failed.
InOrder ==
    /\ ~Terminated
    /\ IF pc' = pc
       THEN /\ pc = "Probe"
            /\ Len(probed') = Len(probed) + 1
            /\ Len(probed') <= Len(candidates)
            /\ candidates' = candidates
       ELSE \/ pc' = "Failed"
            \/ pc' \in Range(StageOrder) /\ StageRank(pc') = StageRank(pc) + 1
            \/ pc = "WriteScratch" /\ pc' = "Cleanup" /\ pending' # "none"

\* A run that has not ended can take a step: every call of main() returns or
\* raises.  Patch has no condition but its stage.
CanStep == Terminated \/ pc = "Patch" \/ ENABLED Next

\* The steps a run that is Done has invoked, in order.
DoneSteps ==
    LET steps == [k \in 1..Len(calls) |-> calls[k].step]
        n == Cardinality({k \in 1..Len(calls) : steps[k] = "infocmp -V"})
    IN  /\ n >= 1
        /\ steps = <<"tic -V", "port contents", "brew ls">>
                       \o [k \in 1..n |-> "infocmp -V"]
                       \o <<"infocmp -x", "patch_shorts", "makedirs", "mkdtemp", "write",
                            "tic -x", "rmtree">>
        /\ \A k \in 1..Len(calls) :
              steps[k] \notin {"port contents", "brew ls", "infocmp -V"} => calls[k].ok

Ordered ==
    /\ CanStep
    /\ (pc = "Done") = (exit_status = Some(0))
    /\ (pc = "Failed") = (exit_status = Some(1))
    /\ ~Terminated => exit_status = None
    /\ pc = "Done" => DoneSteps /\ terminfo_dirs \in TerminfoDirsFor(out_dir.v)
    /\ (\E ok \in BOOLEAN : Invoked("tic -x", ok)) =>
          /\ Invoked("infocmp -x", TRUE)
          /\ infocmp # None
          /\ export_exe = infocmp
          /\ src_file = Some(patch_shorts(export_stdout))
          /\ compiled \in {None, src_file}
    /\ (warned /\ pc = "Failed") =>
          \E k \in 1..Len(calls) :
              calls[k].step \in {"makedirs", "mkdtemp", "write", "tic -x"} /\ ~calls[k].ok

\* C11: a run takes steps until it has ended and every step advances it, so it
\* ends, in Done with exit status 0 or in Failed with exit status 1; the stages
\* are passed once each and in order; the compiler is run on the patched output
\* of a successful export by the selected decompiler; a patch that changes
\* nothing does not fail the run.
PipelineOrdering == []Ordered /\ [][InOrder]_vars

PipelineOrderingWitness ==
    /\ pc = "Done"
    /\ warned
    /\ compiled = Some(export_stdout)
    /\ Len(probed) >= 2
    /\ guidance

\* The bare fallback name has been probed.
FallbackWasProbed == \E k \in 1..Len(probed) : probed[k].exe = INFOCMP_FALLBACK

\* The inventories have been read and hold a path ending in /bin/infocmp.
InventoryCandidate ==
    /\ port_result # None
    /\ brew_result # None
    /\ ~NoInventoryCandidate

\* C12: the fallback name is a candidate, and is probed, only when no inventory
\* path ends in /bin/infocmp, and then find_infocmp does not return without
\* probing it; with an inventory candidate the candidates are the inventory
\* paths alone, and when none of them is viable find_infocmp returns None and
\* the run is Failed with exit status 1, the fallback name never tried.
FallbackOnlyWhenEmpty ==
    /\ FallbackWasProbed => NoInventoryCandidate
    /\ find_returned => (FallbackWasProbed <=> NoInventoryCandidate)
    /\ InventoryCandidate =>
          /\ INFOCMP_FALLBACK \notin Range(candidates)
          /\ \A k \in 1..Len(candidates) : endswith(candidates[k], INFOCMP_SUFFIX)
          /\ (find_returned /\ \A k \in 1..Len(probed) : ~ProbeViable(probed[k])) =>
                /\ Len(probed) = Len(candidates)
                /\ infocmp = None
                /\ pc = "Failed"
                /\ exit_status = Some(1)
                /\ ~Invoked("infocmp -x", TRUE) /\ ~Invoked("infocmp -x", FALSE)

FallbackOnlyWhenEmptyWitness ==
    /\ InventoryCandidate
    /\ find_returned
    /\ Len(probed) >= 2
    /\ \A k \in 1..Len(probed) : ~ProbeViable(probed[k])
    /\ ~FallbackWasProbed
    /\ pc = "Failed"
    /\ exit_status = Some(1)

====
